---- MODULE Spec2Model ----
(***************************************************************************)
(* Model of bin/upmem-dimm-configure.py: argument validation, the batch    *)
(* combinators apply_on_devices / map_on_devices, the in-band MCU flash    *)
(* sequence, device discovery and resolution, and the DFU flash sequence.  *)
(*                                                                         *)
(* Representation.  Python's None is the empty sequence and a present      *)
(* value v is <<v>>.  A comma-separated option string ("a,b") is the       *)
(* sequence of its comma-free items, so the empty string is <<>>.  A rank  *)
(* path is [stem, digits]: the text of the path is some directory, then    *)
(* stem, then the digits.  A rank token 'dpu_rankN' is its digit sequence. *)
(* The environment (exit status of a tool, fault of a serial line, output  *)
(* of dfu-util -l, glob results) is chosen by \E in the action that        *)
(* performs the call.                                                      *)
(***************************************************************************)
EXTENDS Integers, Sequences, FiniteSets, TLC

\* ---- bounds of the model ------------------------------------------------
MaxIds == 2      \* identifiers in --rank / --sernum, rank nodes in /dev
MaxTty == 2      \* tty endpoints matched by the usb-serial glob
MaxDfu == 2      \* devices in DFU mode, and "Found DFU" lines printed by dfu-util -l

None == <<>>
Some(v) == <<v>>

RECURSIVE SeqsUpTo(_, _)
SeqsUpTo(S, n) ==
    IF n = 0 THEN {<<>>}
    ELSE LET shorter == SeqsUpTo(S, n - 1)
         IN  shorter \cup {Append(s, x) : s \in {t \in shorter : Len(t) = n - 1}, x \in S}

Range(s) == {s[i] : i \in DOMAIN s}

\* the lists Python may build from a set (iteration order of a set of str
\* depends on the per-process hash seed)
Orderings(S) == {s \in [1..Cardinality(S) -> S] : Range(s) = S}

\* ---- inputs ---------------------------------------------------------------
RankPaths ==
    { [stem |-> "dpu_rank", digits |-> <<0>>],
      [stem |-> "dpu_rank", digits |-> <<3>>],
      [stem |-> "dpu_rank", digits |-> <<1, 2, 3>>],
      [stem |-> "dpu_rank", digits |-> <<>>] }

SerialNumbers == {"12634275", "99999999"}

DfuPathNames == <<"1-1.2", "1-1.3", "1-1.4", "1-1.5">>

\* the USB paths of the devices dfu-util -l can list
DfuPaths == {DfuPathNames[i] : i \in 1..MaxDfu}

\* one line of a console answer: the S/N token it holds (or None) and the
\* quoted rank tokens it holds, in order
Lines ==
    { [sn |-> Some("12634275"), ranks |-> << <<0>>, <<3>> >>],
      [sn |-> Some("22222222"), ranks |-> << <<1>>, <<3>> >>],
      [sn |-> Some("33333333"), ranks |-> << <<2>> >>],
      [sn |-> Some("44444444"), ranks |-> << >>] }

\* answers of an endpoint to "dimm\n": no line at all (read timed out) or one line
Responses == {<<>>} \cup {<<l>> : l \in Lines}

TtyNames == <<"ttyUSB0", "ttyUSB1", "ttyUSB2", "ttyUSB3">>

\* the endpoints the glob can return, in glob order; lines is the answer of the
\* endpoint to "dimm\n", known once the endpoint has been reached
TtySets == { [i \in 1..n |-> [name |-> TtyNames[i], lines |-> <<>>]] : n \in 0..MaxTty }

ProcResults == {"0", "nonzero", "timeout"}


SerialFaults == {"ok", "open_timeout", "open_error", "drain_error", "write_error", "read_error"}

\* ---- validate_args ----------------------------------------------------------
\* The checks on --disable-dpu, --update-db, --set-vdd and --set-osc concern
\* options that are never given here.
validate_args_both(a) ==
    IF a.sernum # <<>> /\ ~a.flash_mcu_dfu THEN "ValueError"
    ELSE IF a.dry_run /\ ~a.flash_mcu_dfu THEN "ValueError"
    ELSE "none"

validate_args(a) ==
    IF a.rank # <<>> /\ a.sernum # <<>> THEN "ValueError"
    ELSE IF a.sernum # <<>> /\ ~a.flash_mcu_dfu THEN "ValueError"
    ELSE IF a.dry_run /\ ~a.flash_mcu_dfu THEN "ValueError"
    ELSE "none"

\* ---- subprocess_verbose -----------------------------------------------------
\* subprocess.run(check=False, timeout=...): a nonzero exit status is returned
\* in proc.returncode; when the timeout expires the child is killed and
\* subprocess.TimeoutExpired is raised (returncode is then not available).
subprocess_verbose(res) ==
    [exc        |-> IF res = "timeout" THEN "TimeoutExpired" ELSE "none",
     returncode |-> IF res = "0" THEN 0 ELSE 1]

\* ---- apply_on_devices.try_apply ---------------------------------------------
\* exc is what operation(args, device) raised ("none": it returned)
try_apply_swallow(exc, stop_on_error) ==
    IF exc = "none" THEN [raise |-> "none", status |-> FALSE]
    ELSE IF exc = "RankError" THEN [raise |-> "none", status |-> TRUE]
    ELSE [raise |-> exc, status |-> TRUE]

try_apply(exc, stop_on_error) ==
    IF exc = "none" THEN [raise |-> "none", status |-> FALSE]
    ELSE IF exc = "RankError"
         THEN IF stop_on_error THEN [raise |-> "RankError", status |-> TRUE]
              ELSE [raise |-> "none", status |-> TRUE]
         ELSE [raise |-> exc, status |-> TRUE]

any_last(statuses) == statuses # <<>> /\ statuses[Len(statuses)]

\* any(error_statuses)
any(statuses) == \E i \in DOMAIN statuses : statuses[i]

\* ---- map_on_devices ---------------------------------------------------------
\* out is what operation(device) did: [exc, ret, msg]
try_map(out, stop_on_error) ==
    IF out.exc = "none" THEN [raise |-> "none", ret |-> out.ret, printed |-> <<>>]
    ELSE IF out.exc = "RankError"
         THEN IF stop_on_error THEN [raise |-> "RankError", ret |-> None, printed |-> <<>>]
              ELSE [raise |-> "none", ret |-> None, printed |-> <<out.msg>>]
         ELSE [raise |-> out.exc, ret |-> None, printed |-> <<>>]

\* the returned pair (None in return_values, list(filter(None, return_values))).
\* The values mapped by this program are endpoint names (never empty: they
\* match tty*) and four-key dicts, so filter(None, ...) drops exactly the Nones.
map_return_last(return_values) ==
    LET kept == SelectSeq(return_values, LAMBDA v : v # None)
    IN  [error  |-> return_values # <<>> /\ return_values[Len(return_values)] = None,
         values |-> [i \in DOMAIN kept |-> kept[i][1]]]

map_return(return_values) ==
    LET kept == SelectSeq(return_values, LAMBDA v : v # None)
    IN  [error  |-> \E i \in DOMAIN return_values : return_values[i] = None,
         values |-> [i \in DOMAIN kept |-> kept[i][1]]]

RECURSIVE map_loop_break(_, _, _, _, _)
map_loop_break(outs, stop_on_error, i, return_values, printed) ==
    IF i > Len(outs) THEN [exc |-> "none", return_values |-> return_values, printed |-> printed]
    ELSE LET t == try_map(outs[i], stop_on_error)
         IN  IF t.raise # "none"
             THEN [exc |-> t.raise, return_values |-> return_values, printed |-> printed]
             ELSE IF t.ret = None
             THEN [exc |-> "none", return_values |-> Append(return_values, t.ret),
                   printed |-> printed \o t.printed]
             ELSE map_loop_break(outs, stop_on_error, i + 1,
                                 Append(return_values, t.ret), printed \o t.printed)

RECURSIVE map_loop(_, _, _, _, _)
map_loop(outs, stop_on_error, i, return_values, printed) ==
    IF i > Len(outs) THEN [exc |-> "none", return_values |-> return_values, printed |-> printed]
    ELSE LET t == try_map(outs[i], stop_on_error)
         IN  IF t.raise # "none"
             THEN [exc |-> t.raise, return_values |-> return_values, printed |-> printed]
             ELSE map_loop(outs, stop_on_error, i + 1,
                           Append(return_values, t.ret), printed \o t.printed)

\* outs[i] is the outcome of operation(device_list[i]); the operations mapped
\* by the resolver are pure, so evaluating them ahead of the loop changes nothing
map_on_devices(outs, stop_on_error) ==
    LET l == map_loop(outs, stop_on_error, 1, <<>>, <<>>)
        r == map_return(l.return_values)
    IN  [exc |-> l.exc, error |-> r.error, values |-> r.values,
         return_values |-> l.return_values, printed |-> l.printed]

\* ---- flash_mcu_mode ---------------------------------------------------------
FlashMcuCmds == <<"sysjump", "flasherase", "flashwrite", "reboot_ec">>

FlashMcuErrors == <<"Failed to jump to RO FW.", "Failed to erase RW partition.",
                    "Failed to write RW partition.", "Failed to reboot MCU.">>

flash_mcu_mode_unchecked_erase(step, res) ==
    LET proc == subprocess_verbose(res)
    IN  IF proc.exc # "none"
        THEN [cmd |-> FlashMcuCmds[step], exc |-> proc.exc, msg |-> "", done |-> TRUE]
        ELSE IF proc.returncode # 0 /\ step # 2
        THEN [cmd |-> FlashMcuCmds[step], exc |-> "RankError",
              msg |-> FlashMcuErrors[step], done |-> TRUE]
        ELSE [cmd |-> FlashMcuCmds[step], exc |-> "none", msg |-> "",
              done |-> (step = Len(FlashMcuCmds))]

\* the outcome of the ectool call issued at position step, and what follows it
flash_mcu_mode(step, res) ==
    LET proc == subprocess_verbose(res)
    IN  IF proc.exc # "none"
        THEN [cmd |-> FlashMcuCmds[step], exc |-> proc.exc, msg |-> "", done |-> TRUE]
        ELSE IF proc.returncode # 0
        THEN [cmd |-> FlashMcuCmds[step], exc |-> "RankError",
              msg |-> FlashMcuErrors[step], done |-> TRUE]
        ELSE [cmd |-> FlashMcuCmds[step], exc |-> "none", msg |-> "",
              done |-> (step = Len(FlashMcuCmds))]

\* ---- serial_send_cmd --------------------------------------------------------
\* trace: the calls made on the serial line, the last one being the call that
\* failed when exc is not "none"; open: connections left open on return;
\* wrote: write() calls issued.  Under dry-run the body is skipped and the
\* function returns None.  With read_response false the returned "" is
\* represented as the empty list of lines (no caller looks at it).
serial_send_cmd(dry_run, io, read_response, lines) ==
    IF dry_run
    THEN [exc |-> "none", response |-> None, trace |-> <<>>, open |-> 0, wrote |-> 0]
    ELSE IF io = "open_timeout"
    THEN [exc |-> "RankError", response |-> None, trace |-> <<"open">>, open |-> 0, wrote |-> 0]
    ELSE IF io = "open_error"
    THEN [exc |-> "SerialException", response |-> None, trace |-> <<"open">>,
          open |-> 0, wrote |-> 0]
    ELSE IF io = "drain_error"
    THEN [exc |-> "SerialException", response |-> None, trace |-> <<"open", "drain">>,
          open |-> 1, wrote |-> 0]
    ELSE IF io = "write_error"
    THEN [exc |-> "RankError", response |-> None, trace |-> <<"open", "drain", "write">>,
          open |-> 1, wrote |-> 1]
    ELSE IF read_response /\ io = "read_error"
    THEN [exc |-> "RankError", response |-> None,
          trace |-> <<"open", "drain", "write", "read">>, open |-> 1, wrote |-> 1]
    ELSE IF read_response
    THEN [exc |-> "none", response |-> Some(lines),
          trace |-> <<"open", "drain", "write", "read", "close">>, open |-> 0, wrote |-> 1]
    ELSE [exc |-> "none", response |-> Some(<<>>),
          trace |-> <<"open", "drain", "write", "close">>, open |-> 0, wrote |-> 1]

\* ---- get_usb_infos.get_tty_device -------------------------------------------
RECURSIVE parse_lines(_, _, _)
parse_lines(tty_device, strings, i) ==
    IF i > Len(strings) THEN [exc |-> "none", tty_device |-> tty_device]
    ELSE LET s  == strings[i]
             d1 == IF s.sn # None THEN [tty_device EXCEPT !.serial_number = s.sn]
                   ELSE tty_device
         IN  IF s.ranks # <<>>
             THEN IF Len(s.ranks) < 2
                  THEN [exc |-> "IndexError",
                        tty_device |-> [d1 EXCEPT !.rank0 = Some(s.ranks[1])]]
                  ELSE parse_lines([d1 EXCEPT !.rank0 = Some(s.ranks[1]),
                                              !.rank1 = Some(s.ranks[2])], strings, i + 1)
             ELSE parse_lines(d1, strings, i + 1)

get_tty_device(name, dry_run, io, lines) ==
    LET tty_device  == [name |-> name, rank0 |-> None, rank1 |-> None, serial_number |-> None]
        bytes_array == serial_send_cmd(dry_run, io, TRUE, lines)
    IN  IF bytes_array.exc # "none"
        THEN [exc |-> bytes_array.exc, ret |-> None, msg |-> "Device", ser |-> bytes_array]
        ELSE IF bytes_array.response = None
        THEN [exc |-> "none", ret |-> Some(tty_device), msg |-> "", ser |-> bytes_array]
        ELSE LET p == parse_lines(tty_device, bytes_array.response[1], 1)
             IN  IF p.exc # "none"
                 THEN [exc |-> p.exc, ret |-> None, msg |-> "", ser |-> bytes_array]
                 ELSE [exc |-> "none", ret |-> Some(p.tty_device), msg |-> "",
                       ser |-> bytes_array]

\* ---- flash_dimm_dfu ---------------------------------------------------------
FlashDfuCmds == <<"dfu_download", "dfu_unprotect">>

FlashDfuErrors == <<"Failed to flash device", "Failed to reboot device">>

flash_dimm_dfu_always(step, dry_run, res) ==
    LET proc == subprocess_verbose(res)
    IN  IF proc.exc # "none"
        THEN [exc |-> proc.exc, msg |-> "", done |-> TRUE, procs |-> 1]
        ELSE IF proc.returncode # 0
        THEN [exc |-> "RankError", msg |-> FlashDfuErrors[step], done |-> TRUE, procs |-> 1]
        ELSE [exc |-> "none", msg |-> "", done |-> (step = Len(FlashDfuCmds)), procs |-> 1]

flash_dimm_dfu(step, dry_run, res) ==
    IF ~dry_run
    THEN LET proc == subprocess_verbose(res)
         IN  IF proc.exc # "none"
             THEN [exc |-> proc.exc, msg |-> "", done |-> TRUE, procs |-> 1]
             ELSE IF proc.returncode # 0
             THEN [exc |-> "RankError", msg |-> FlashDfuErrors[step], done |-> TRUE, procs |-> 1]
             ELSE [exc |-> "none", msg |-> "", done |-> (step = Len(FlashDfuCmds)), procs |-> 1]
    ELSE [exc |-> "none", msg |-> "", done |-> (step = Len(FlashDfuCmds)), procs |-> 0]

\* ---- set_dimm_dfu_mode ------------------------------------------------------
set_dimm_dfu_mode(dry_run, io) ==
    LET s == serial_send_cmd(dry_run, io, FALSE, <<>>)
    IN  IF s.exc # "none"
        THEN [exc |-> s.exc, msg |-> "Device", ser |-> s, sleeps |-> 0]
        ELSE [exc |-> "none", msg |-> "", ser |-> s, sleeps |-> IF ~dry_run THEN 1 ELSE 0]

\* ---- get_dfu_devices --------------------------------------------------------
\* match: the path of each "Found DFU: [0483:df11]" line of dfu-util -l, in
\* order; the result is list(set(match)), one of the orderings of the set
get_dfu_devices_list(match) == {match}

get_dfu_devices(match) == Orderings(Range(match))

\* ---- exit_dfu_mode ----------------------------------------------------------
exit_dfu_mode(dry_run, res) ==
    IF ~dry_run
    THEN LET proc == subprocess_verbose(res)
         IN  IF proc.exc # "none"
             THEN [exc |-> proc.exc, msg |-> "", procs |-> 1, sleeps |-> 0]
             ELSE IF proc.returncode # 0
             THEN [exc |-> "RankError", msg |-> "Failed to reboot device, or device didn't exist",
                   procs |-> 1, sleeps |-> 0]
             ELSE [exc |-> "none", msg |-> "", procs |-> 1, sleeps |-> 1]
    ELSE [exc |-> "none", msg |-> "", procs |-> 0, sleeps |-> 1]

\* ---- find_devices_by_serial_number ------------------------------------------
query_serial_number(df, sernum) ==
    LET row == SelectSeq(df, LAMBDA r : r.serial_number = Some(sernum))
    IN  IF row = <<>>
        THEN [exc |-> "RankError", ret |-> None, msg |-> "Serial number does not exist"]
        ELSE [exc |-> "none", ret |-> Some(row[1].name), msg |-> ""]

find_devices_by_serial_number(df, serial_numbers, stop_on_error) ==
    map_on_devices([i \in DOMAIN serial_numbers |-> query_serial_number(df, serial_numbers[i])],
                   stop_on_error)

\* ---- find_devices_by_rank ---------------------------------------------------
\* re.search(r"dpu_rank\d{1,2}$", rank): the path must end in dpu_rank and one
\* or two digits
rank_match_digits(rank) == rank.stem = "dpu_rank" /\ Len(rank.digits) >= 1

rank_match(rank) == rank.stem = "dpu_rank" /\ Len(rank.digits) \in 1..2

query_rank_last(df, rank) ==
    IF ~rank_match(rank)
    THEN [exc |-> "RankError", ret |-> None, msg |-> "path is invalid"]
    ELSE LET rank_name == rank.digits
             row == SelectSeq(df, LAMBDA r : r.rank0 = Some(rank_name)
                                             \/ r.rank1 = Some(rank_name))
         IN  IF row = <<>>
             THEN [exc |-> "RankError", ret |-> None, msg |-> "Rank does not exist"]
             ELSE [exc |-> "none", ret |-> Some(row[Len(row)].name), msg |-> ""]

query_rank(df, rank) ==
    IF ~rank_match(rank)
    THEN [exc |-> "RankError", ret |-> None, msg |-> "path is invalid"]
    ELSE LET rank_name == rank.digits
             row == SelectSeq(df, LAMBDA r : r.rank0 = Some(rank_name)
                                             \/ r.rank1 = Some(rank_name))
         IN  IF row = <<>>
             THEN [exc |-> "RankError", ret |-> None, msg |-> "Rank does not exist"]
             ELSE [exc |-> "none", ret |-> Some(row[1].name), msg |-> ""]

find_devices_by_rank(df, rank_path_list, stop_on_error) ==
    map_on_devices([i \in DOMAIN rank_path_list |-> query_rank(df, rank_path_list[i])],
                   stop_on_error)

\* ---- flash_mcu_dfu_mode: df.empty ---------------------------------------------
df_empty_never(table) == FALSE

df_empty(table) == Len(table) = 0

\* ---- flash_mcu_dfu_mode: not list_dfu_devices and not args.dry_run -------------
no_dfu_devices_ignored(list_dfu_devices, dry_run) == FALSE

no_dfu_devices(list_dfu_devices, dry_run) == list_dfu_devices = <<>> /\ ~dry_run

\* ---- flash_mcu_dfu_mode: list(set(list_tty_devices)) ---------------------------
list_keep(list_tty_devices) == {list_tty_devices}

\* the lists list(set(...)) can build
list_set(list_tty_devices) == Orderings(Range(list_tty_devices))

\* ---- get_tty_devices --------------------------------------------------------
get_tty_devices_globbed(df, a, rank_path_list) ==
    IF a.sernum # <<>> THEN find_devices_by_serial_number(df, a.sernum, a.stop_on_error)
    ELSE IF rank_path_list # <<>> THEN find_devices_by_rank(df, rank_path_list, a.stop_on_error)
    ELSE [exc |-> "none", error |-> FALSE, values |-> [i \in DOMAIN df |-> df[i].name],
          return_values |-> [i \in DOMAIN df |-> Some(df[i].name)], printed |-> <<>>]

get_tty_devices(df, a, rank_path_list) ==
    IF a.sernum # <<>> THEN find_devices_by_serial_number(df, a.sernum, a.stop_on_error)
    ELSE IF a.rank # <<>> THEN find_devices_by_rank(df, rank_path_list, a.stop_on_error)
    ELSE [exc |-> "none", error |-> FALSE, values |-> [i \in DOMAIN df |-> df[i].name],
          return_values |-> [i \in DOMAIN df |-> Some(df[i].name)], printed |-> <<>>]

\* ---- state -------------------------------------------------------------------
VARIABLES
    args,            \* the parsed command line
    pc,              \* the place of main / flash_mcu_dfu_mode that runs next (or where it ended)
    outcome,         \* "running", "ok" (exit status 0) or the exception that ended the process
    rank_path_list,  \* main: rank_path_list
    device_list,     \* apply_on_devices: device_list of the batch in progress
    idx,             \* apply_on_devices: position of the next device of the comprehension
    step,            \* position inside the operation running on device_list[idx]
    error_statuses,  \* apply_on_devices: the values try_apply returned so far
    error_mode,      \* flash_mcu_dfu_mode: error_mode
    hw,              \* the endpoints returned by the usb-serial glob, with the answer of
                     \* those reached so far (under dry-run: the answer they would give)
    tty_i,           \* map_on_devices of get_usb_infos: position of the next endpoint
    return_values,   \* map_on_devices of get_usb_infos: return_values so far
    df,              \* the device table
    resolved,        \* the list returned by get_tty_devices (before list(set(...)))
    id_values,       \* return_values of the resolver's map_on_devices
    id_errors,       \* the errors the resolver's map_on_devices printed
    calls,           \* history: devices the operation of this batch was invoked on
    results,         \* history: what each completed invocation of this batch raised
    steps,           \* history: tool calls made for the device being flashed
    dev_errors,      \* history: RankErrors raised by the invocation on the current device
    spawned,         \* history: subprocess_verbose has spawned a process
    nlist,           \* history: dfu-util -l processes spawned by get_dfu_devices
    opened,          \* history: a serial connection has been opened
    triggered,       \* history: a DFU-trigger command has been written
    slept,           \* history: time.sleep(5) has been called
    left_open,       \* history: serial_send_cmd has returned or raised with its connection open
    phases           \* history: the kinds of hardware action performed so far, in order,
                     \* a run of actions of one kind being written once

batch == <<device_list, idx, step, error_statuses, calls, results, steps, dev_errors>>
disco == <<hw, tty_i, return_values, df>>
resol == <<resolved, id_values, id_errors>>
count == <<spawned, nlist, opened, triggered, slept, left_open, phases>>
vars  == <<args, pc, outcome, rank_path_list, error_mode, batch, disco, resol, count>>

IdLists == SeqsUpTo(RankPaths, MaxIds)

ArgSets ==
    [rank : IdLists, sernum : SeqsUpTo(SerialNumbers, MaxIds),
     flash_mcu : BOOLEAN, flash_mcu_dfu : BOOLEAN,
     dry_run : BOOLEAN, stop_on_error : BOOLEAN]

\* the rank nodes glob.glob("/dev/dpu_rank*") can return
DevRanks == <<[stem |-> "dpu_rank", digits |-> <<0>>],
              [stem |-> "dpu_rank", digits |-> <<3>>],
              [stem |-> "dpu_rank", digits |-> <<7>>],
              [stem |-> "dpu_rank", digits |-> <<1, 1>>]>>

GlobRanks == {SubSeq(DevRanks, 1, n) : n \in 0..MaxIds}

\* (a device may be printed on more than one line: one line more than devices)
DfuOutputs == SeqsUpTo(DfuPaths, MaxDfu + 1)

\* the lists get_dfu_devices can return
DfuLists == UNION {get_dfu_devices(match) : match \in DfuOutputs}

Init ==
    /\ args \in ArgSets
    /\ pc = "parse_args"
    /\ outcome = "running"
    /\ rank_path_list = <<>>
    /\ device_list = <<>> /\ idx = 1 /\ step = 1 /\ error_statuses = <<>>
    /\ calls = <<>> /\ results = <<>> /\ steps = <<>> /\ dev_errors = <<>>
    /\ error_mode = FALSE
    /\ hw = <<>> /\ tty_i = 1 /\ return_values = <<>> /\ df = <<>>
    /\ resolved = <<>> /\ id_values = <<>> /\ id_errors = <<>>
    /\ spawned = FALSE /\ nlist = 0 /\ opened = FALSE /\ triggered = FALSE /\ slept = FALSE
    /\ left_open = FALSE /\ phases = <<>>

\* the hardware action kind is performed (or nothing, when ~done)
Performed(kind, done) ==
    phases' = IF done /\ (phases = <<>> \/ phases[Len(phases)] # kind)
              THEN Append(phases, kind) ELSE phases

\* apply_on_devices is entered with device_list l
StartBatch(l) ==
    /\ device_list' = l
    /\ idx' = 1 /\ step' = 1 /\ error_statuses' = <<>>
    /\ calls' = <<>> /\ results' = <<>> /\ steps' = <<>> /\ dev_errors' = <<>>

\* the operation on device_list[idx] ended raising exc: try_apply decides
Finish(exc) ==
    LET t == try_apply(exc, args.stop_on_error)
    IN  /\ results' = Append(results, exc)
        /\ IF t.raise # "none"
           THEN /\ outcome' = t.raise
                /\ UNCHANGED <<idx, error_statuses>>
           ELSE /\ outcome' = outcome
                /\ idx' = idx + 1
                /\ error_statuses' = Append(error_statuses, t.status)

\* ---- parse_args: validate_args ----------------------------------------------
ParseArgs ==
    /\ pc = "parse_args" /\ outcome = "running"
    /\ LET v == validate_args(args)
       IN  IF v # "none" THEN outcome' = v /\ pc' = pc
           ELSE outcome' = outcome /\ pc' = "main"
    /\ UNCHANGED <<args, rank_path_list, error_mode, batch, disco,
                   resol, count>>

\* ---- main: rank_path_list, choice of the action, dispatch ---------------------
Main ==
    /\ pc = "main" /\ outcome = "running"
    /\ \E found \in GlobRanks :
         LET l == IF args.rank # <<>> THEN args.rank ELSE found
         IN  /\ rank_path_list' = l
             /\ IF args.flash_mcu
                THEN StartBatch(l) /\ pc' = "flash_mcu_mode" /\ outcome' = outcome
                ELSE IF args.flash_mcu_dfu
                THEN pc' = "get_dfu_devices" /\ outcome' = outcome /\ UNCHANGED batch
                ELSE pc' = pc /\ outcome' = "ValueError" /\ UNCHANGED batch
    /\ UNCHANGED <<args, error_mode, disco, resol, count>>

\* ---- flash_mcu_mode: one ectool call on device_list[idx] ---------------------
FlashMcuMode ==
    /\ pc = "flash_mcu_mode" /\ outcome = "running" /\ idx <= Len(device_list)
    /\ \E res \in ProcResults :
         LET r == flash_mcu_mode(step, res)
         IN  /\ spawned' = TRUE
             /\ Performed("ectool", TRUE)
             /\ calls' = IF step = 1 THEN Append(calls, device_list[idx]) ELSE calls
             /\ steps' = Append(IF step = 1 THEN <<>> ELSE steps, [cmd |-> r.cmd, res |-> res])
             /\ dev_errors' = (IF step = 1 THEN <<>> ELSE dev_errors)
                              \o (IF r.exc = "RankError" THEN <<r.msg>> ELSE <<>>)
             /\ IF r.done
                THEN step' = 1 /\ Finish(r.exc)
                ELSE step' = step + 1 /\ UNCHANGED <<idx, error_statuses, results, outcome>>
    /\ UNCHANGED <<args, pc, rank_path_list, device_list, error_mode, disco, resol,
                   nlist, opened, triggered, slept, left_open>>

\* ---- main: the batch of the rank operation returned --------------------------
MainEnd ==
    /\ pc = "flash_mcu_mode" /\ outcome = "running" /\ idx > Len(device_list)
    /\ outcome' = IF any(error_statuses) THEN "RuntimeError" ELSE "ok"
    /\ pc' = "end"
    /\ UNCHANGED <<args, rank_path_list, error_mode, batch, disco,
                   resol, count>>

\* ---- flash_mcu_dfu_mode 0: list the devices in DFU mode ------------------------
GetDfuDevices ==
    /\ pc = "get_dfu_devices" /\ outcome = "running"
    /\ \E list_dfu_devices \in DfuLists : StartBatch(list_dfu_devices)
    /\ nlist' = nlist + 1
    /\ Performed("dfu_list", TRUE)
    /\ error_mode' = FALSE
    /\ pc' = "exit_dfu_mode"
    /\ UNCHANGED <<args, outcome, rank_path_list, disco, resol,
                   spawned, opened, triggered, slept, left_open>>

\* ---- exit_dfu_mode on device_list[idx] ----------------------------------------
ExitDfuMode ==
    /\ pc = "exit_dfu_mode" /\ outcome = "running" /\ idx <= Len(device_list)
    /\ \E res \in (IF args.dry_run THEN {"0"} ELSE ProcResults) :
         LET r == exit_dfu_mode(args.dry_run, res)
         IN  /\ spawned' = (spawned \/ r.procs > 0)
             /\ Performed("dfu_exit", r.procs > 0)
             /\ slept' = (slept \/ r.sleeps > 0)
             /\ calls' = Append(calls, device_list[idx])
             /\ dev_errors' = IF r.exc = "RankError" THEN <<r.msg>> ELSE <<>>
             /\ Finish(r.exc)
    /\ UNCHANGED <<args, pc, rank_path_list, device_list, step, steps, error_mode,
                   disco, resol, nlist, opened, triggered, left_open>>

\* ---- flash_mcu_dfu_mode 0: apply_on_devices(exit_dfu_mode, ...) returns -------
\* The locals of apply_on_devices are gone.
ExitDfuModeEnd ==
    /\ pc = "exit_dfu_mode" /\ outcome = "running" /\ idx > Len(device_list)
    /\ error_mode' = (error_mode \/ any(error_statuses))
    /\ StartBatch(<<>>)
    /\ pc' = "get_usb_infos"
    /\ UNCHANGED <<args, outcome, rank_path_list, disco, resol, count>>

\* ---- flash_mcu_dfu_mode 1: get_usb_infos globs the endpoints ------------------
GetUsbInfos ==
    /\ pc = "get_usb_infos" /\ outcome = "running"
    /\ hw' \in TtySets
    /\ tty_i' = 1 /\ return_values' = <<>>
    /\ pc' = "get_tty_device"
    /\ UNCHANGED <<args, outcome, rank_path_list, error_mode, batch, df, resol, count>>

\* ---- get_usb_infos.get_tty_device on endpoint hw[tty_i] -----------------------
\* An endpoint whose serial line faults sends no answer.
GetTtyDevice ==
    /\ pc = "get_tty_device" /\ outcome = "running" /\ tty_i <= Len(hw)
    /\ \E io \in (IF args.dry_run THEN {"ok"} ELSE SerialFaults) :
       \E lines \in (IF io = "ok" THEN Responses ELSE {<<>>}) :
         LET g == get_tty_device(hw[tty_i].name, args.dry_run, io, lines)
             t == try_map(g, args.stop_on_error)
         IN  /\ hw' = [hw EXCEPT ![tty_i].lines = lines]
             /\ opened' = (opened \/ g.ser.trace # <<>>)
             /\ Performed("dimm_query", g.ser.trace # <<>>)
             /\ left_open' = (left_open \/ g.ser.open > 0)
             /\ IF t.raise # "none"
                THEN outcome' = t.raise /\ UNCHANGED <<tty_i, return_values>>
                ELSE /\ outcome' = outcome
                     /\ tty_i' = tty_i + 1
                     /\ return_values' = Append(return_values, t.ret)
    /\ UNCHANGED <<args, pc, rank_path_list, error_mode, batch, df, resol,
                   spawned, nlist, triggered, slept>>

\* ---- get_usb_infos returns the table (return_values goes out of scope) ---------
GetUsbInfosEnd ==
    /\ pc = "get_tty_device" /\ outcome = "running" /\ tty_i > Len(hw)
    /\ LET m == map_return(return_values)
       IN  /\ df' = m.values
           /\ error_mode' = (error_mode \/ m.error)
    /\ return_values' = <<>>
    /\ pc' = "get_tty_devices"
    /\ UNCHANGED <<args, outcome, rank_path_list, batch, hw, tty_i, resol, count>>

\* ---- flash_mcu_dfu_mode 1-2: empty table check, get_tty_devices, list(set()) ---
GetTtyDevices ==
    /\ pc = "get_tty_devices" /\ outcome = "running"
    /\ IF df_empty(df)
       THEN outcome' = "RuntimeError" /\ pc' = pc /\ UNCHANGED <<error_mode, batch, resol>>
       ELSE LET r == get_tty_devices(df, args, rank_path_list)
            IN  IF r.exc # "none"
                THEN outcome' = r.exc /\ pc' = pc /\ UNCHANGED <<error_mode, batch, resol>>
                ELSE /\ outcome' = outcome
                     /\ error_mode' = (error_mode \/ r.error)
                     /\ resolved' = r.values
                     /\ id_values' = r.return_values
                     /\ id_errors' = r.printed
                     /\ \E list_tty_devices \in list_set(r.values) :
                          StartBatch(list_tty_devices)
                     /\ pc' = "set_dimm_dfu_mode"
    /\ UNCHANGED <<args, rank_path_list, disco, count>>

\* ---- set_dimm_dfu_mode on device_list[idx] ------------------------------------
SetDimmDfuMode ==
    /\ pc = "set_dimm_dfu_mode" /\ outcome = "running" /\ idx <= Len(device_list)
    /\ \E io \in (IF args.dry_run THEN {"ok"} ELSE SerialFaults \ {"read_error"}) :
         LET r == set_dimm_dfu_mode(args.dry_run, io)
         IN  /\ opened' = (opened \/ r.ser.trace # <<>>)
             /\ Performed("dfu_trigger", r.ser.trace # <<>>)
             /\ left_open' = (left_open \/ r.ser.open > 0)
             /\ triggered' = (triggered \/ r.ser.wrote > 0)
             /\ slept' = (slept \/ r.sleeps > 0)
             /\ calls' = Append(calls, device_list[idx])
             /\ dev_errors' = IF r.exc = "RankError" THEN <<r.msg>> ELSE <<>>
             /\ Finish(r.exc)
    /\ UNCHANGED <<args, pc, rank_path_list, device_list, step, steps, error_mode,
                   disco, resol, spawned, nlist>>

\* (variant: the batch is left as soon as one target went through the step)
SetDimmDfuModeEnd_first ==
    /\ pc = "set_dimm_dfu_mode" /\ outcome = "running" /\ idx > 1
    /\ error_mode' = (error_mode \/ any(error_statuses))
    /\ StartBatch(<<>>)
    /\ hw' = <<>> /\ tty_i' = 1 /\ df' = <<>>
    /\ resolved' = <<>> /\ id_values' = <<>> /\ id_errors' = <<>>
    /\ args' = [args EXCEPT !.rank = <<>>, !.sernum = <<>>]
    /\ rank_path_list' = <<>>
    /\ pc' = "get_dfu_devices_again"
    /\ UNCHANGED <<outcome, return_values, count>>

\* ---- flash_mcu_dfu_mode 3: apply_on_devices(set_dimm_dfu_mode, ...) returns ---
\* The locals of apply_on_devices are gone, and nothing after line 465 reads
\* the table, the endpoints, the resolver's lists or the identifiers of the
\* command line: they are dropped here.
SetDimmDfuModeEnd ==
    /\ pc = "set_dimm_dfu_mode" /\ outcome = "running" /\ idx > Len(device_list)
    /\ error_mode' = (error_mode \/ any(error_statuses))
    /\ StartBatch(<<>>)
    /\ hw' = <<>> /\ tty_i' = 1 /\ df' = <<>>
    /\ resolved' = <<>> /\ id_values' = <<>> /\ id_errors' = <<>>
    /\ args' = [args EXCEPT !.rank = <<>>, !.sernum = <<>>]
    /\ rank_path_list' = <<>>
    /\ pc' = "get_dfu_devices_again"
    /\ UNCHANGED <<outcome, return_values, count>>

\* (variant: only the devices of a run that triggered an endpoint are flashed)
ReEnumerate_triggered ==
    /\ pc = "get_dfu_devices_again" /\ outcome = "running"
    /\ nlist' = nlist + 1
    /\ Performed("dfu_list", TRUE)
    /\ \E list_dfu_devices \in DfuLists :
         IF no_dfu_devices(list_dfu_devices, args.dry_run)
         THEN outcome' = "RuntimeError" /\ pc' = pc /\ UNCHANGED batch
         ELSE /\ outcome' = outcome /\ pc' = "flash_dimm_dfu"
              /\ StartBatch(IF triggered THEN list_dfu_devices ELSE <<>>)
    /\ UNCHANGED <<args, rank_path_list, error_mode, disco, resol,
                   spawned, opened, triggered, slept, left_open>>

\* ---- flash_mcu_dfu_mode 4: list the devices in DFU mode again -----------------
ReEnumerate ==
    /\ pc = "get_dfu_devices_again" /\ outcome = "running"
    /\ nlist' = nlist + 1
    /\ Performed("dfu_list", TRUE)
    /\ \E list_dfu_devices \in DfuLists :
         IF no_dfu_devices(list_dfu_devices, args.dry_run)
         THEN outcome' = "RuntimeError" /\ pc' = pc /\ UNCHANGED batch
         ELSE outcome' = outcome /\ pc' = "flash_dimm_dfu" /\ StartBatch(list_dfu_devices)
    /\ UNCHANGED <<args, rank_path_list, error_mode, disco, resol,
                   spawned, opened, triggered, slept, left_open>>

\* ---- flash_dimm_dfu: one dfu-util command on device_list[idx] -----------------
FlashDimmDfu ==
    /\ pc = "flash_dimm_dfu" /\ outcome = "running" /\ idx <= Len(device_list)
    /\ \E res \in (IF args.dry_run THEN {"0"} ELSE ProcResults) :
         LET r == flash_dimm_dfu(step, args.dry_run, res)
         IN  /\ spawned' = (spawned \/ r.procs > 0)
             /\ Performed("dfu_flash", r.procs > 0)
             /\ calls' = IF step = 1 THEN Append(calls, device_list[idx]) ELSE calls
             /\ steps' = Append(IF step = 1 THEN <<>> ELSE steps,
                                [cmd |-> FlashDfuCmds[step], res |-> res])
             /\ dev_errors' = (IF step = 1 THEN <<>> ELSE dev_errors)
                              \o (IF r.exc = "RankError" THEN <<r.msg>> ELSE <<>>)
             /\ IF r.done
                THEN step' = 1 /\ Finish(r.exc)
                ELSE step' = step + 1 /\ UNCHANGED <<idx, error_statuses, results, outcome>>
    /\ UNCHANGED <<args, pc, rank_path_list, device_list, error_mode, disco, resol,
                   nlist, opened, triggered, slept, left_open>>

\* ---- flash_mcu_dfu_mode: the aggregate error flag -----------------------------
DfuEnd ==
    /\ pc = "flash_dimm_dfu" /\ outcome = "running" /\ idx > Len(device_list)
    /\ error_mode' = (error_mode \/ any(error_statuses))
    /\ outcome' = IF error_mode' THEN "RuntimeError" ELSE "ok"
    /\ pc' = "end"
    /\ UNCHANGED <<args, rank_path_list, batch, disco, resol, count>>

Next ==
    \/ ParseArgs
    \/ Main
    \/ FlashMcuMode
    \/ MainEnd
    \/ GetDfuDevices
    \/ ExitDfuMode
    \/ ExitDfuModeEnd
    \/ GetUsbInfos
    \/ GetTtyDevice
    \/ GetUsbInfosEnd
    \/ GetTtyDevices
    \/ SetDimmDfuMode
    \/ SetDimmDfuModeEnd
    \/ ReEnumerate
    \/ FlashDimmDfu
    \/ DfuEnd

Spec == Init /\ [][Next]_vars

TypeOK ==
    /\ pc \in {"parse_args", "main", "flash_mcu_mode", "get_dfu_devices", "exit_dfu_mode",
               "get_usb_infos", "get_tty_device", "get_tty_devices", "set_dimm_dfu_mode",
               "get_dfu_devices_again",
               "flash_dimm_dfu", "end"}
    /\ outcome \in {"running", "ok", "ValueError", "RuntimeError", "RankError",
                    "TimeoutExpired", "SerialException", "IndexError"}
    /\ Len(error_statuses) <= Len(device_list)
    /\ Len(results) <= Len(calls)
    /\ Len(calls) <= Len(device_list)

\* ---- properties ---------------------------------------------------------------

\* the run went through flash_mcu_dfu_mode (flash_mcu comes first in mode_functions)
DfuPath == args.flash_mcu_dfu /\ ~args.flash_mcu

\* the identifiers handed to the resolver
Identifiers == IF args.sernum # <<>> THEN args.sernum ELSE rank_path_list

\* C1: under the stop-on-error policy, an invocation of the batch that raised is
\* the last invocation of the batch (no later target is invoked) and its
\* exception is the one that ended the run.
C1_StopAtFirstFailure ==
    args.stop_on_error =>
        \A i \in DOMAIN results :
            results[i] # "none" => (i = Len(calls) /\ outcome = results[i])

C1_Witness ==
    /\ args.stop_on_error
    /\ results # <<>> /\ results[Len(results)] = "RankError"
    /\ outcome = "RankError"
    /\ Len(calls) < Len(device_list)

\* C2: under the continue policy a batch that is over has invoked the operation
\* once on every target, in order, whatever failed on the way (nonzero exit,
\* serial fault, timeout), and the returned flag is true iff a target failed.
C2_ContinueInvokesAll ==
    ~args.stop_on_error =>
        /\ outcome # "running" => calls = device_list
        /\ idx > Len(device_list) =>
              (any(error_statuses) <=> \E i \in DOMAIN results : results[i] # "none")

\* C3: the tool calls made for one device by the in-band flash are a prefix of
\* sysjump, flasherase, flashwrite, reboot_ec; a call is made only after every
\* earlier one exited with 0; a nonzero exit is the last call for that device
\* and raises exactly one error, the one of that step.
C3_InBandSequence ==
    args.flash_mcu =>
        /\ Len(steps) <= 4
        /\ \A i \in DOMAIN steps :
              /\ steps[i].cmd = <<"sysjump", "flasherase", "flashwrite", "reboot_ec">>[i]
              /\ i < Len(steps) => steps[i].res = "0"
              /\ steps[i].res = "nonzero" =>
                    dev_errors = << <<"Failed to jump to RO FW.",
                                      "Failed to erase RW partition.",
                                      "Failed to write RW partition.",
                                      "Failed to reboot MCU.">>[i] >>
        /\ Len(dev_errors) <= 1

C3_Witness ==
    /\ args.flash_mcu /\ ~args.stop_on_error
    /\ Len(steps) = 2 /\ steps[2].res = "nonzero"
    /\ dev_errors = <<"Failed to erase RW partition.">>
    /\ idx = 2 /\ Len(device_list) = 2

\* C4: the Process Runner never raises: no run ends with the timeout exception
\* of an external command.
C4_RunnerNeverRaises == outcome # "TimeoutExpired"

\* C5: in serial-number or rank mode under the continue policy every identifier
\* is accounted for once: targets + errors = identifiers; an identifier with no
\* matching row gives an error and no target, one with a matching row gives the
\* name of a matching row, whatever happened to the identifiers before it.
C5_NoRow(id) ==
    IF args.sernum # <<>>
    THEN ~\E k \in DOMAIN df : df[k].serial_number = <<id>>
    ELSE \/ id.stem # "dpu_rank" \/ Len(id.digits) = 0 \/ Len(id.digits) > 2
         \/ ~\E k \in DOMAIN df : df[k].rank0 = <<id.digits>> \/ df[k].rank1 = <<id.digits>>

C5_EveryIdentifierAccounted ==
    (pc = "set_dimm_dfu_mode" /\ ~args.stop_on_error
        /\ (args.sernum # <<>> \/ args.rank # <<>>)) =>
        /\ Len(resolved) + Len(id_errors) = Len(Identifiers)
        /\ Len(id_values) = Len(Identifiers)
        /\ Cardinality({i \in DOMAIN id_values : id_values[i] = <<>>}) = Len(id_errors)
        /\ \A i \in DOMAIN id_values :
              IF C5_NoRow(Identifiers[i]) THEN id_values[i] = <<>>
              ELSE \E k \in DOMAIN df : id_values[i] = <<df[k].name>>

C5_Witness ==
    /\ pc = "set_dimm_dfu_mode" /\ ~args.stop_on_error
    /\ args.sernum = <<"99999999", "12634275">>
    /\ id_values = << <<>>, <<"ttyUSB0">> >>
    /\ resolved = <<"ttyUSB0">> /\ Len(id_errors) = 1

\* C6: a command line with both --rank and --sernum never gets past
\* validate_args: it ends there with ValueError, and no process was spawned, no
\* serial line opened or written, no endpoint globbed, no operation invoked.
C6_RankAndSernumRejected ==
    (args.rank # <<>> /\ args.sernum # <<>>) =>
        /\ pc = "parse_args"
        /\ outcome \in {"running", "ValueError"}
        /\ ~spawned /\ nlist = 0 /\ ~opened /\ ~triggered
        /\ hw = <<>> /\ calls = <<>>

C6_Witness ==
    /\ args.rank # <<>> /\ args.sernum # <<>>
    /\ args.flash_mcu_dfu /\ ~args.flash_mcu
    /\ outcome = "ValueError"

C8_Queried == [i \in DOMAIN hw |-> get_tty_device(hw[i].name, FALSE, "ok", hw[i].lines)]

\* C8: the targets and identifier errors a dry-run invocation resolves are those
\* a non-dry-run invocation resolves on the same endpoints for the same intent.
C8_DryRunSameResolution ==
    (pc = "set_dimm_dfu_mode" /\ args.dry_run
        /\ \A i \in DOMAIN hw : C8_Queried[i].exc = "none") =>
        LET r == get_tty_devices([i \in DOMAIN hw |-> C8_Queried[i].ret[1]],
                                 args, rank_path_list)
        IN  r.exc = "none" /\ resolved = r.values /\ id_errors = r.printed

\* C9: in dry-run mode the DFU flashing path never waits the settle time.
C9_NoSleepInDryRun ==
    (DfuPath /\ args.dry_run) => ~slept

\* C10: when discovery returned an empty table the next step of the operation
\* ends it with RuntimeError under both policies, and that step spawns no
\* process, opens no serial line, writes no DFU trigger and invokes nothing.
C10_EmptyTableIsFatal ==
    [][(pc = "get_tty_devices" /\ df = <<>>) =>
         (outcome' = "RuntimeError" /\ pc' = pc /\ UNCHANGED <<count, batch>>)]_vars

C10_Witness ==
    /\ pc = "get_tty_devices" /\ df = <<>>
    /\ outcome = "RuntimeError"
    /\ ~args.stop_on_error /\ hw # <<>>

\* C11: the step that re-enumerates the DFU devices after the enter-DFU step
\* either ends the operation with RuntimeError, whatever the policy, leaving the
\* batch state and the process history untouched (no flash command), or hands a
\* list to the flash step; without dry-run it never hands an empty list, with
\* dry-run it never raises, so that an empty list goes on to the flash step
\* (with nothing to flash) and to the end of the operation.
C11_EmptyReEnumeration ==
    [][pc = "get_dfu_devices_again" =>
         IF args.dry_run
         THEN outcome' = "running" /\ pc' = "flash_dimm_dfu"
         ELSE \/ /\ outcome' = "RuntimeError" /\ pc' = pc
                 /\ UNCHANGED <<batch, spawned, opened, triggered, slept>>
              \/ /\ outcome' = "running" /\ pc' = "flash_dimm_dfu"
                 /\ device_list' # <<>>]_vars

C11_Witness ==
    /\ pc = "get_dfu_devices_again" /\ outcome = "RuntimeError"
    /\ ~args.dry_run /\ ~args.stop_on_error
    /\ nlist = 2 /\ triggered /\ ~error_mode

\* C12: under the continue policy the DFU flash operation is ended only by its
\* final aggregate or by one of its two precondition errors (empty table, empty
\* re-enumeration): no failure on a device in the exit, enter-DFU or flash step
\* ends it; and at its end it fails iff its error flag was raised.
C12_ContinueRunsEveryStep ==
    (DfuPath /\ ~args.stop_on_error /\ pc \notin {"parse_args", "main"}
        /\ outcome # "running") =>
        \/ pc = "end" /\ (outcome = "RuntimeError" <=> error_mode)
                      /\ (outcome = "ok" <=> ~error_mode)
        \/ pc = "get_tty_devices" /\ df = <<>> /\ outcome = "RuntimeError"
        \/ pc = "get_dfu_devices_again" /\ outcome = "RuntimeError"

\* the order of the hardware actions of flash_mcu_dfu_mode
PhaseOrder == <<"dfu_list", "dfu_exit", "dimm_query", "dfu_trigger", "dfu_list", "dfu_flash">>

RECURSIVE IsSubsequence(_, _)
IsSubsequence(s, t) ==
    IF s = <<>> THEN TRUE
    ELSE IF t = <<>> THEN FALSE
    ELSE IF Head(s) = Head(t) THEN IsSubsequence(Tail(s), Tail(t))
    ELSE IsSubsequence(s, Tail(t))

\* C13: in the DFU flash operation the hardware actions come in phase order
\* (listing, exit commands, identity queries, DFU triggers, listing, flash
\* commands), no phase being returned to; a DFU trigger is sent only when
\* discovery has queried every endpoint and resolution is over; the enter-DFU
\* step is left only when it was run on every target, and flash commands are
\* issued only after that; the commands of one device are over before the
\* next device is invoked.
C13_PhaseOrder ==
    [][DfuPath =>
         /\ IsSubsequence(phases', PhaseOrder)
         /\ (\E i \in DOMAIN phases' : phases'[i] = "dfu_trigger") =>
               /\ pc' \in {"set_dimm_dfu_mode", "get_dfu_devices_again", "flash_dimm_dfu", "end"}
               /\ tty_i' > Len(hw')
         /\ (pc = "set_dimm_dfu_mode" /\ pc' # pc) => calls = device_list
         /\ (\E i \in DOMAIN phases' : phases'[i] = "dfu_flash") =>
               pc' \in {"flash_dimm_dfu", "end"}
         /\ (pc' = "flash_dimm_dfu" /\ step' > 1) => Len(calls') = idx']_vars

C13_Witness ==
    /\ DfuPath /\ pc = "end" /\ outcome = "ok"
    /\ phases = PhaseOrder
    /\ Len(calls) = 2 /\ triggered /\ slept

NoDuplicates(s) == \A i, j \in DOMAIN s : i # j => s[i] # s[j]

\* every list get_dfu_devices can build holds each path of the listing once
C14_Deduplicated ==
    \A match \in DfuOutputs : \A l \in get_dfu_devices(match) :
        NoDuplicates(l) /\ Range(l) = Range(match)

\* C14: every list get_dfu_devices can build holds each path of the listing
\* once (two lines 1-1.2 and 1-1.3 give two entries, also when a path is printed
\* twice); the stale-DFU exit step is left for discovery only when the exit
\* operation was invoked on every listed device, and no endpoint is queried
\* before; the flash operation is invoked at most once on a path.
C14_ExitAllFlashOnce ==
    [][DfuPath =>
         /\ C14_Deduplicated
         /\ pc' \in {"exit_dfu_mode", "flash_dimm_dfu"} =>
               NoDuplicates(device_list') /\ NoDuplicates(calls')
         /\ pc' = "exit_dfu_mode" => ~opened'
         /\ (pc = "exit_dfu_mode" /\ pc' # pc) => calls = device_list]_vars

C14_Witness ==
    /\ DfuPath /\ ~args.dry_run /\ pc = "end"
    /\ \E i \in DOMAIN phases : phases[i] = "dfu_exit"
    /\ Range(calls) = {"1-1.2", "1-1.3"} /\ Len(calls) = 2
    /\ error_mode

\* C15: the table get_usb_infos returns has exactly one row per endpoint of the
\* glob, in glob order, and under the continue policy discovery is not ended by
\* what happens on an endpoint.
C15_OneRowPerEndpoint ==
    DfuPath =>
        /\ pc = "get_tty_devices" =>
              /\ Len(df) = Len(hw)
              /\ \A i \in DOMAIN df : df[i].name = hw[i].name
        /\ (pc = "get_tty_device" /\ ~args.stop_on_error) => outcome = "running"

\* C16: serial_send_cmd never returns or raises leaving the connection it
\* opened open.
C16_EveryConnectionClosed == ~left_open

\* what the resolver's operation does on each identifier
C17_Outs ==
    IF args.sernum # <<>>
    THEN [i \in DOMAIN args.sernum |-> query_serial_number(df, args.sernum[i])]
    ELSE [i \in DOMAIN rank_path_list |-> query_rank(df, rank_path_list[i])]

\* C17: under the continue policy, what map_on_devices returns to the resolver
\* is the results of the identifiers whose query succeeded, in identifier
\* order, and the flag it adds to error_mode is true iff a query failed; what
\* it returns to discovery is the rows it collected, the failed ones dropped,
\* with the flag true iff one was dropped.
C17_MapKeepsSuccesses ==
    [][~args.stop_on_error =>
         /\ (pc = "get_tty_devices" /\ pc' = "set_dimm_dfu_mode"
                /\ (args.sernum # <<>> \/ args.rank # <<>>)) =>
               LET ok == SelectSeq(C17_Outs, LAMBDA o : o.exc = "none")
               IN  /\ resolved' = [k \in DOMAIN ok |-> ok[k].ret[1]]
                   /\ error_mode' <=> (error_mode \/ Len(ok) < Len(C17_Outs))
         /\ (pc = "get_tty_device" /\ pc' = "get_tty_devices") =>
               LET kept == SelectSeq(return_values, LAMBDA v : v # <<>>)
               IN  /\ df' = [k \in DOMAIN kept |-> kept[k][1]]
                   /\ error_mode' <=> (error_mode \/ Len(kept) < Len(return_values))]_vars

C17_Witness ==
    /\ pc = "set_dimm_dfu_mode" /\ ~args.stop_on_error /\ idx = 1
    /\ Len(args.rank) = 2
    /\ args.rank[1].digits = <<1, 2, 3>> /\ args.rank[2].digits = <<3>>
    /\ resolved = <<"ttyUSB0">>
    /\ error_mode /\ ~spawned /\ ~left_open

C19_UpToTwoRankTokens ==
    DfuPath =>
        /\ outcome # "IndexError"
        /\ (pc = "get_tty_devices" /\ ~args.dry_run) =>
              \A i \in DOMAIN df : \A k \in DOMAIN hw :
                  (hw[k].name = df[i].name /\ hw[k].lines # <<>>) =>
                      LET l == hw[k].lines[1]
                      IN  /\ df[i].serial_number = l.sn
                          /\ df[i].rank0 = IF Len(l.ranks) >= 1 THEN <<l.ranks[1]>> ELSE <<>>
                          /\ df[i].rank1 = IF Len(l.ranks) >= 2 THEN <<l.ranks[2]>> ELSE <<>>

\* row k of the table matches the identifier id
C20_Matches(k, id) ==
    IF args.sernum # <<>>
    THEN df[k].serial_number = <<id>>
    ELSE /\ id.stem = "dpu_rank" /\ Len(id.digits) \in {1, 2}
         /\ (df[k].rank0 = <<id.digits>> \/ df[k].rank1 = <<id.digits>>)

\* C20: the endpoint returned for a rank path (or a serial number) is the name
\* of the first row of the table, in table order, whose rank0 or rank1 is the
\* trailing dpu_rankNN token of the path (whose serial number is the given one);
\* a row whose identity fields are all empty is never returned.
C20_FirstMatchingRow ==
    (pc = "set_dimm_dfu_mode" /\ (args.sernum # <<>> \/ args.rank # <<>>)) =>
        \A i \in DOMAIN id_values :
            id_values[i] # <<>> =>
                \E k \in DOMAIN df :
                    /\ df[k].name = id_values[i][1]
                    /\ C20_Matches(k, Identifiers[i])
                    /\ \A j \in 1..(k - 1) : ~C20_Matches(j, Identifiers[i])
                    /\ ~(df[k].serial_number = <<>> /\ df[k].rank0 = <<>> /\ df[k].rank1 = <<>>)

C20_Witness ==
    /\ pc = "set_dimm_dfu_mode" /\ idx = 1
    /\ Len(args.rank) = 1 /\ args.rank[1].digits = <<3>>
    /\ Len(df) = 2
    /\ df[1].rank1 = << <<3>> >> /\ df[2].rank1 = << <<3>> >>
    /\ df[1].rank0 = << <<0>> >>
    /\ resolved = <<"ttyUSB0">>

\* the trailing token of the path is not dpu_rank and one or two digits
C21_Malformed(id) == ~(id.stem = "dpu_rank" /\ Len(id.digits) \in {1, 2})

\* the error printed for identifier i (which gave no target)
C21_ErrorOf(i) == id_errors[Cardinality({j \in 1..i : id_values[j] = <<>>})]

\* a malformed path is rejected as invalid also by a table that holds its token
C21_TableNotConsulted ==
    \A rank \in RankPaths :
        C21_Malformed(rank) =>
            LET row == [name |-> "ttyUSB0", rank0 |-> <<rank.digits>>, rank1 |-> <<>>,
                        serial_number |-> <<>>]
                q == query_rank(<<row>>, rank)
            IN  q.exc = "RankError" /\ q.msg = "path is invalid" /\ q.ret = <<>>

\* C21: a rank path whose trailing token is dpu_rank with no digit or with three
\* or more digits gives the invalid-path error, whatever the table holds, and
\* no target; a well-formed path that gives no target gives the other error
\* (rank does not exist); under the continue policy the well-formed paths of the
\* list that match a row are resolved whatever the other paths are, and under
\* stop-on-error a list with a malformed path gets no further.
C21_InvalidPathRejected ==
    (pc = "set_dimm_dfu_mode" /\ args.rank # <<>> /\ args.sernum = <<>>) =>
        /\ C21_TableNotConsulted
        /\ Len(id_values) = Len(rank_path_list)
        /\ \A i \in DOMAIN rank_path_list :
              IF C21_Malformed(rank_path_list[i])
              THEN /\ ~args.stop_on_error
                   /\ id_values[i] = <<>>
                   /\ C21_ErrorOf(i) = "path is invalid"
              ELSE /\ id_values[i] = <<>> => C21_ErrorOf(i) = "Rank does not exist"
                   /\ (\E k \in DOMAIN df : C20_Matches(k, rank_path_list[i])) =>
                         id_values[i] # <<>>

C21_Witness ==
    /\ pc = "set_dimm_dfu_mode" /\ ~args.stop_on_error /\ idx = 1
    /\ Len(args.rank) = 2
    /\ args.rank[1].digits = <<>> /\ args.rank[2].digits = <<3>>
    /\ id_values = << <<>>, <<"ttyUSB0">> >>
    /\ id_errors = <<"path is invalid">>

\* C22: with neither --rank nor --sernum, the resolver step raises nothing,
\* prints no error, leaves the error flag as it was and returns the name of
\* every row of the table, in table order, all-empty rows included, whatever
\* rank nodes main found in /dev.
C22_AllIntentReturnsEveryRow ==
    [][(pc = "get_tty_devices" /\ df # <<>> /\ args.rank = <<>> /\ args.sernum = <<>>) =>
         /\ outcome' = "running" /\ pc' = "set_dimm_dfu_mode"
         /\ resolved' = [i \in DOMAIN df |-> df[i].name]
         /\ id_errors' = <<>>
         /\ error_mode' = error_mode
         /\ Range(device_list') = {df[i].name : i \in DOMAIN df}]_vars

C22_Witness ==
    /\ pc = "set_dimm_dfu_mode" /\ idx = 1
    /\ args.rank = <<>> /\ args.sernum = <<>> /\ ~args.dry_run
    /\ rank_path_list # <<>>
    /\ Len(df) = 2
    /\ df[1].serial_number = <<"12634275">>
    /\ df[2].serial_number = <<>> /\ df[2].rank0 = <<>> /\ df[2].rank1 = <<>>
    /\ resolved = <<"ttyUSB0", "ttyUSB1">>
    /\ ~error_mode

\* C23: the list the enter-DFU step runs on holds each resolved endpoint once,
\* and nothing else, however many identifiers resolved to it: the step is
\* invoked at most once on an endpoint.
C23_TargetsDeduplicated ==
    pc = "set_dimm_dfu_mode" =>
        /\ NoDuplicates(device_list)
        /\ Range(device_list) = Range(resolved)
        /\ NoDuplicates(calls)
        /\ calls = SubSeq(device_list, 1, Len(calls))

C23_Witness ==
    /\ pc = "set_dimm_dfu_mode" /\ ~args.dry_run
    /\ Len(args.rank) = 2
    /\ args.rank[1].digits = <<0>> /\ args.rank[2].digits = <<3>>
    /\ resolved = <<"ttyUSB0", "ttyUSB0">>
    /\ device_list = <<"ttyUSB0">> /\ calls = <<"ttyUSB0">>
    /\ triggered /\ idx = 2

\* the serial calls of a call of serial_send_cmd come in the order open, drain,
\* write, read, close, with no read when no response is expected
C24_CallOrder ==
    \A io \in SerialFaults : \A read_response \in BOOLEAN :
        LET s    == serial_send_cmd(FALSE, io, read_response, <<>>)
            full == IF read_response THEN <<"open", "drain", "write", "read", "close">>
                    ELSE <<"open", "drain", "write", "close">>
        IN  /\ s.trace # <<>>
            /\ s.trace = SubSeq(full, 1, Len(s.trace))

\* C24: a call of serial_send_cmd without dry-run drains before it writes,
\* reads only after the write and only when a response is expected, and no
\* failure of open, drain, write or read leaves it as anything but RankError:
\* no run ends with a serial exception.
C24_SerialFailuresAreRankErrors ==
    /\ C24_CallOrder
    /\ outcome # "SerialException"

\* C25: whatever the exit step, resolution and the enter-DFU step did, every
\* non-empty list the second listing can give can become the list of the flash
\* step; and when the flash step is over the flash operation has been invoked
\* on every device of that list, once.
C25_FlashFollowsListing ==
    DfuPath =>
        /\ (pc = "get_dfu_devices_again" /\ outcome = "running") =>
              \A l \in DfuLists \ {<<>>} :
                  ENABLED (ReEnumerate /\ pc' = "flash_dimm_dfu" /\ device_list' = l)
        /\ pc = "end" => calls = device_list /\ NoDuplicates(calls)

C25_Witness ==
    /\ DfuPath /\ ~args.dry_run /\ ~args.stop_on_error
    /\ pc = "end" /\ outcome = "RuntimeError"
    /\ phases = <<"dfu_list", "dfu_exit", "dimm_query", "dfu_list", "dfu_flash">>
    /\ ~slept /\ ~triggered
    /\ Range(calls) = DfuPaths
    /\ \A i \in DOMAIN results : results[i] = "none"

====
